---- MODULE Spec2Model ----
(***************************************************************************)
(* Model of the Model Control Protocol (mcp_implementation.py): a SQLite   *)
(* backed message store (tables messages and model_interactions) and the   *)
(* round-robin execute_turn that passes a message along the roster.        *)
(*                                                                         *)
(* Strings are sequences of tokens, so that an f-string is the             *)
(* concatenation the code performs and "" is the empty sequence.  A Python *)
(* value that may be None is a record [some, val].  CURRENT_TIMESTAMP has   *)
(* a resolution of one second and time.sleep(0.5) is one clock tick, so a  *)
(* timestamp is clock \div TicksPerSecond.  Where a query leaves the order  *)
(* of rows with equal sort keys to the engine, every such order is a       *)
(* possible result.                                                        *)
(***************************************************************************)
EXTENDS Integers, Sequences, FiniteSets, TLC

VARIABLES
    tables,            \* names of the tables that exist in the database file
    messages,          \* rows of table messages, in rowid order
    model_interactions,\* rows of table model_interactions, in rowid order
    sqlite_sequence,   \* AUTOINCREMENT counters of the two tables
    models,            \* self.models, the roster
    current_model_index, \* self.current_model_index
    clock,             \* wall clock at the last write, in ticks of half a second
    nSends,            \* number of direct send_message calls made so far
    nTurns,            \* number of execute_turn calls made so far
    nResets,           \* number of "clear database" requests made so far
    last               \* the last call made: its arguments and its outcome

vars == <<tables, messages, model_interactions, sqlite_sequence, models,
          current_model_index, clock, nSends, nTurns, nResets, last>>

----------------------------------------------------------------------------
\* Bounds of the model

MaxCalls == 3
MaxTurns == 2
MaxResets == 1
MaxWait == 1
MaxDelay == 1
MaxSession == 2

\* time.sleep(0.5) against the one-second resolution of CURRENT_TIMESTAMP
TicksPerSecond == 2

----------------------------------------------------------------------------
\* Values

DefaultModels == <<"Claude", "Gemini", "ChatGPT">>

Agents == {"Claude", "Gemini", "ChatGPT"}

Rosters ==
    { <<>>,
      <<"Claude">>,
      <<"Claude", "Gemini">>,
      <<"Claude", "Claude">>,
      DefaultModels,
      <<"Claude", "Gemini", "Claude", "ChatGPT">> }

Senders == {"User"}

EmptyStr == <<>>

Contents == { EmptyStr, <<"hello">> }

None == [some |-> FALSE, val |-> <<>>]

Some(v) == [some |-> TRUE, val |-> v]

NoneId == [some |-> FALSE, val |-> 0]

SomeId(n) == [some |-> TRUE, val |-> n]

\* Python truth value of an optional string: None and "" are false
TruthyStr(o) == o.some /\ o.val # EmptyStr

\* Python truth value of an optional integer: None and 0 are false
TruthyInt(o) == o.some /\ o.val # 0

SeqToSet(s) == { s[i] : i \in 1..Len(s) }

\* CURRENT_TIMESTAMP at clock value c
Timestamp(c) == c \div TicksPerSecond

----------------------------------------------------------------------------
\* The database

DB == [tables |-> tables, messages |-> messages,
       model_interactions |-> model_interactions,
       sqlite_sequence |-> sqlite_sequence]

\* A database file that does not exist (before construction, after os.remove)
NoFile == [tables |-> {}, messages |-> <<>>, model_interactions |-> <<>>,
           sqlite_sequence |-> [messages |-> 0, model_interactions |-> 0]]

\* Variant: DROP TABLE and CREATE TABLE, the tables come back empty
setup_database_recreate(db) ==
    [db EXCEPT !.tables = db.tables \cup {"messages", "model_interactions"},
               !.messages = <<>>,
               !.model_interactions = <<>>]

\* CREATE TABLE IF NOT EXISTS for both tables, then commit
setup_database(db) ==
    [db EXCEPT !.tables = db.tables \cup {"messages", "model_interactions"}]

\* The rows of messages JOIN model_interactions ON m.id = mi.message_id
JoinRows(db) ==
    { [m |-> m, mi |-> mi] :
        <<m, mi>> \in { p \in SeqToSet(db.messages) \X SeqToSet(db.model_interactions) :
                          p[1].id = p[2].message_id } }

\* Variant: the id a rolled-back INSERT took is not given back, as with a
\* sequence kept outside the transaction
send_message_burns_id(db, sender_model, receiver_model, message_content, now, fail) ==
    LET message_id == db.sqlite_sequence.messages + 1
        interaction_id == db.sqlite_sequence.model_interactions + 1
        afterMessage ==
            [db EXCEPT !.messages = Append(@,
                           [id |-> message_id, model_id |-> sender_model,
                            message_type |-> "text",
                            message_content |-> message_content,
                            timestamp |-> Timestamp(now)]),
                       !.sqlite_sequence.messages = message_id]
        afterInteraction ==
            [afterMessage EXCEPT
                       !.model_interactions = Append(@,
                           [interaction_id |-> interaction_id,
                            model1_id |-> sender_model,
                            model2_id |-> receiver_model,
                            message_id |-> message_id,
                            timestamp |-> Timestamp(now)]),
                       !.sqlite_sequence.model_interactions = interaction_id]
    IN  IF fail = "none"
        THEN [db |-> afterInteraction, raised |-> FALSE, ret |-> message_id]
        ELSE [db |-> [db EXCEPT !.sqlite_sequence =
                                   IF fail = "model_interactions"
                                   THEN afterMessage.sqlite_sequence
                                   ELSE afterInteraction.sqlite_sequence],
              raised |-> TRUE, ret |-> 0]

\* Variant: every INSERT is committed on its own, so a call that raises at the
\* second INSERT leaves the message behind
send_message_autocommit(db, sender_model, receiver_model, message_content, now, fail) ==
    LET message_id == db.sqlite_sequence.messages + 1
        interaction_id == db.sqlite_sequence.model_interactions + 1
        afterMessage ==
            [db EXCEPT !.messages = Append(@,
                           [id |-> message_id, model_id |-> sender_model,
                            message_type |-> "text",
                            message_content |-> message_content,
                            timestamp |-> Timestamp(now)]),
                       !.sqlite_sequence.messages = message_id]
        afterInteraction ==
            [afterMessage EXCEPT
                       !.model_interactions = Append(@,
                           [interaction_id |-> interaction_id,
                            model1_id |-> sender_model,
                            model2_id |-> receiver_model,
                            message_id |-> message_id,
                            timestamp |-> Timestamp(now)]),
                       !.sqlite_sequence.model_interactions = interaction_id]
    IN  IF fail = "none"
        THEN [db |-> afterInteraction, raised |-> FALSE, ret |-> message_id]
        ELSE IF fail = "model_interactions"
             THEN [db |-> afterMessage, raised |-> TRUE, ret |-> 0]
             ELSE [db |-> afterInteraction, raised |-> TRUE, ret |-> 0]

\* send_message: two INSERTs in one transaction, visible only once committed.
\* fail names the statement that raises ("none": the call returns).
send_message(db, sender_model, receiver_model, message_content, now, fail) ==
    LET message_id == db.sqlite_sequence.messages + 1
        interaction_id == db.sqlite_sequence.model_interactions + 1
        afterMessage ==
            [db EXCEPT !.messages = Append(@,
                           [id |-> message_id, model_id |-> sender_model,
                            message_type |-> "text",
                            message_content |-> message_content,
                            timestamp |-> Timestamp(now)]),
                       !.sqlite_sequence.messages = message_id]
        afterInteraction ==
            [afterMessage EXCEPT
                       !.model_interactions = Append(@,
                           [interaction_id |-> interaction_id,
                            model1_id |-> sender_model,
                            model2_id |-> receiver_model,
                            message_id |-> message_id,
                            timestamp |-> Timestamp(now)]),
                       !.sqlite_sequence.model_interactions = interaction_id]
    IN  IF fail = "none"
        THEN [db |-> afterInteraction, raised |-> FALSE, ret |-> message_id]
        ELSE \* the connection is dropped without commit: rollback
             [db |-> db, raised |-> TRUE, ret |-> 0]

\* Variant: the receiver is not part of the lookup
SpecificRowsAnyReceiver(db, model_id, id) ==
    { r \in JoinRows(db) : r.mi.message_id = id }

\* WHERE mi.message_id = ? AND mi.model2_id = ?
SpecificRows(db, model_id, id) ==
    { r \in JoinRows(db) : r.mi.message_id = id /\ r.mi.model2_id = model_id }

\* WHERE mi.model2_id = ?
AddressedRows(db, model_id) ==
    { r \in JoinRows(db) : r.mi.model2_id = model_id }

\* Variant: ORDER BY m.timestamp ASC LIMIT 1
EarliestRows(rows) ==
    { r \in rows : \A q \in rows : r.m.timestamp <= q.m.timestamp }

\* ORDER BY m.timestamp DESC LIMIT 1: any row of greatest timestamp
LatestRows(rows) ==
    { r \in rows : \A q \in rows : q.m.timestamp <= r.m.timestamp }

\* receive_message: the set of values the call can return
receive_message(db, model_id, message_id) ==
    LET result == IF TruthyInt(message_id)
                  THEN SpecificRows(db, model_id, message_id.val)
                  ELSE LatestRows(AddressedRows(db, model_id))
    IN  IF result = {} THEN { None }
        ELSE { Some(r.m.message_content) : r \in result }

\* A row of get_all_messages
HistoryRow(r) ==
    <<r.m.id, r.m.model_id, r.mi.model2_id, r.m.message_content, r.m.timestamp>>

\* ORDER BY m.timestamp ASC: every order of the rows that is ascending in time
RECURSIVE OrderByTimestamp(_)
OrderByTimestamp(rows) ==
    IF rows = {} THEN { <<>> }
    ELSE LET first == { r \in rows : \A q \in rows : r.m.timestamp <= q.m.timestamp }
         IN  UNION { { <<HistoryRow(r)>> \o rest : rest \in OrderByTimestamp(rows \ {r}) } :
                     r \in first }

\* get_all_messages: the set of lists the call can return
get_all_messages(db) == OrderByTimestamp(JoinRows(db))

----------------------------------------------------------------------------
\* The turn

Initial(initial_message) == <<"INITIAL: ">> \o initial_message

Received(sender_model, received) ==
    <<"RESPONSE from ", sender_model, ": I received '">> \o received
        \o <<"' and my response is...">>

NoPrior(sender_model) ==
    <<"RESPONSE from ", sender_model,
      ": No prior message received, starting conversation...">>

FailModes == {"model_interactions", "commit"}

\* Variant: the loop stops one position early
LoopDoneEarly(i, roster) == i >= Len(roster)

\* for i in range(len(self.models)), with 1-based positions
LoopDone(i, roster) == i > Len(roster)

\* Variant: every entry hands off to itself
ReceiverSelf(roster, i) == roster[i]

\* Variant: no wrap-around, the last entry hands off to itself
ReceiverNoWrap(roster, i) == roster[IF i < Len(roster) THEN i + 1 ELSE i]

\* self.models[(i + 1) % len(self.models)], with 1-based positions
Receiver(roster, i) == roster[(i % Len(roster)) + 1]

\* Variant: position 0 is seeded whether or not a seed was given
SeededAtFirst(i, initial_message) == i = 1

\* if i == 0 and initial_message
Seeded(i, initial_message) == i = 1 /\ TruthyStr(initial_message)

\* Variant: the whole turn is one transaction, a raise undoes its earlier steps
RaisedUndoesTurn(st, sent, received) ==
    [st EXCEPT !.db = [sent.db EXCEPT
                          !.messages = SubSeq(@, 1, Len(@) - Len(st.responses)),
                          !.model_interactions = SubSeq(@, 1, Len(@) - Len(st.responses))],
               !.received = Append(@, received),
               !.raised = TRUE]

\* send_message raises inside the loop: nothing catches it, execute_turn ends
\* there, and what the earlier steps committed stays
Raised(st, sent, received) ==
    [st EXCEPT !.db = sent.db,
               !.received = Append(@, received),
               !.raised = TRUE]

\* The loop of execute_turn from roster position i (1-based) on: the set of
\* outcomes.  The send of position failAt raises with failMode (0: none
\* raises); delay is the time one step takes, its sleep included.
RECURSIVE turn_loop(_, _, _, _, _, _, _)
turn_loop(st, i, roster, initial_message, failAt, failMode, delay) ==
    IF LoopDone(i, roster) THEN { st }
    ELSE
      LET sender_model == roster[i]
          receiver_model == Receiver(roster, i)
          seeded == Seeded(i, initial_message)
          incoming == IF seeded THEN { None }
                      ELSE receive_message(st.db, sender_model, NoneId)
      IN  UNION {
            LET response == IF seeded THEN Initial(initial_message.val)
                            ELSE IF TruthyStr(received)
                                 THEN Received(sender_model, received.val)
                                 ELSE NoPrior(sender_model)
                sent == send_message(st.db, sender_model, receiver_model, response,
                                     st.clock, IF failAt = i THEN failMode ELSE "none")
            IN  IF sent.raised
                THEN { Raised(st, sent, received) }
                ELSE turn_loop([db |-> sent.db,
                                clock |-> st.clock + delay,
                                responses |-> Append(st.responses, response),
                                received |-> Append(st.received, received),
                                raised |-> FALSE],
                               i + 1, roster, initial_message, failAt, failMode, delay)
            : received \in incoming }

\* Variant: a seed is stored as a message of the user before the loop starts
execute_turn_stores_seed(db, roster, initial_message, now, failAt, failMode, delay) ==
    turn_loop([db |-> IF TruthyStr(initial_message)
                      THEN send_message(db, "User", "User", initial_message.val,
                                        now, "none").db
                      ELSE db,
               clock |-> now, responses |-> <<>>, received |-> <<>>,
               raised |-> FALSE],
              1, roster, initial_message, failAt, failMode, delay)

\* execute_turn: the set of outcomes of one call
execute_turn(db, roster, initial_message, now, failAt, failMode, delay) ==
    turn_loop([db |-> db, clock |-> now, responses |-> <<>>, received |-> <<>>,
               raised |-> FALSE],
              1, roster, initial_message, failAt, failMode, delay)

----------------------------------------------------------------------------
\* The calls

InitialMessages == { None } \cup { Some(c) : c \in Contents }

MessageIds == { NoneId } \cup { SomeId(n) : n \in 0..MaxCalls }

NoCall ==
    [op |-> "init", sender |-> "", receiver |-> "", content |-> EmptyStr,
     model_id |-> "", message_id |-> NoneId, initial_message |-> None,
     raised |-> FALSE, ret_id |-> 0, ret |-> None,
     responses |-> <<>>, received |-> <<>>, rows |-> <<>>, base |-> 0]

SetDB(db) ==
    /\ tables' = db.tables
    /\ messages' = db.messages
    /\ model_interactions' = db.model_interactions
    /\ sqlite_sequence' = db.sqlite_sequence

\* ModelControlProtocol(db_path) on a path that holds no file
Constructed ==
    /\ tables = setup_database(NoFile).tables
    /\ messages = <<>>
    /\ model_interactions = <<>>
    /\ sqlite_sequence = NoFile.sqlite_sequence
    /\ current_model_index = 0
    /\ clock = 0
    /\ nSends = 0
    /\ nTurns = 0
    /\ nResets = 0
    /\ last = NoCall

\* The protocol as constructed: the roster of __init__
Init ==
    /\ Constructed
    /\ models = DefaultModels

\* The protocol with a roster configured by the caller
RosterInit ==
    /\ Constructed
    /\ models \in Rosters

\* mcp.setup_database() on the existing database
SetupDatabase ==
    /\ SetDB(setup_database(DB))
    /\ last' = [NoCall EXCEPT !.op = "setup_database", !.base = Len(messages)]
    /\ UNCHANGED <<models, current_model_index, clock, nSends, nTurns, nResets>>

\* Variant: the file is not removed before setup_database runs
ResetKeepsFile ==
    /\ nResets < MaxResets
    /\ nResets' = nResets + 1
    /\ SetDB(setup_database(DB))
    /\ last' = [NoCall EXCEPT !.op = "reset", !.base = Len(messages)]
    /\ UNCHANGED <<models, current_model_index, clock, nSends, nTurns>>

\* main, choice 4: os.remove(mcp.db_path), then mcp.setup_database()
Reset ==
    /\ nResets < MaxResets
    /\ nResets' = nResets + 1
    /\ SetDB(setup_database(NoFile))
    /\ last' = [NoCall EXCEPT !.op = "reset", !.base = Len(messages)]
    /\ UNCHANGED <<models, current_model_index, clock, nSends, nTurns>>

\* mcp.send_message(s, r, c), called directly, wait ticks after the last write
SendMessage ==
    /\ nSends + nTurns < MaxCalls
    /\ nSends' = nSends + 1
    /\ \E s \in Senders, r \in Agents, c \in Contents, f \in {"none"} \cup FailModes,
          wait \in 0..MaxWait :
         LET sent == send_message(DB, s, r, c, clock + wait, f)
         IN  /\ SetDB(sent.db)
             /\ clock' = clock + wait
             /\ last' = [NoCall EXCEPT !.op = "send_message", !.sender = s,
                                       !.receiver = r, !.content = c,
                                       !.raised = sent.raised, !.ret_id = sent.ret,
                                       !.base = Len(messages)]
    /\ UNCHANGED <<models, current_model_index, nTurns, nResets>>

\* Variant: a lookup consumes what is addressed to the receiver
ReceiveMessageConsumes ==
    /\ \E r \in Agents, id \in MessageIds :
         \E ret \in receive_message(DB, r, id) :
             last' = [NoCall EXCEPT !.op = "receive_message", !.model_id = r,
                                    !.message_id = id, !.ret = ret,
                                    !.base = Len(messages)]
    /\ model_interactions' =
           SelectSeq(model_interactions, LAMBDA h : h.model2_id # last'.model_id)
    /\ UNCHANGED <<tables, messages, sqlite_sequence, models,
                   current_model_index, clock, nSends, nTurns, nResets>>

\* mcp.receive_message(model_id, message_id), called directly
ReceiveMessage ==
    /\ \E r \in Agents, id \in MessageIds :
         \E ret \in receive_message(DB, r, id) :
             last' = [NoCall EXCEPT !.op = "receive_message", !.model_id = r,
                                    !.message_id = id, !.ret = ret,
                                    !.base = Len(messages)]
    /\ UNCHANGED <<tables, messages, model_interactions, sqlite_sequence, models,
                   current_model_index, clock, nSends, nTurns, nResets>>

\* mcp.get_all_messages()
GetAllMessages ==
    /\ \E rows \in get_all_messages(DB) :
             last' = [NoCall EXCEPT !.op = "get_all_messages", !.rows = rows,
                                    !.base = Len(messages)]
    /\ UNCHANGED <<tables, messages, model_interactions, sqlite_sequence, models,
                   current_model_index, clock, nSends, nTurns, nResets>>

\* mcp.execute_turn(initial_message), called wait ticks after the last write
ExecuteTurn ==
    /\ nSends + nTurns < MaxCalls
    /\ nTurns < MaxTurns
    /\ nTurns' = nTurns + 1
    /\ \E im \in InitialMessages,
          f \in { <<0, "none">> } \cup ((1..Len(models)) \X FailModes),
          wait \in 0..MaxWait, delay \in 1..MaxDelay :
         \E out \in execute_turn(DB, models, im, clock + wait, f[1], f[2], delay) :
             /\ SetDB(out.db)
             /\ clock' = out.clock
             /\ last' = [NoCall EXCEPT !.op = "execute_turn", !.initial_message = im,
                                       !.raised = out.raised,
                                       !.responses = out.responses,
                                       !.received = out.received,
                                       !.base = Len(messages)]
    /\ UNCHANGED <<models, current_model_index, nSends, nResets>>

\* The sequencer and the writes of the store
Next ==
    \/ SetupDatabase
    \/ Reset
    \/ SendMessage
    \/ ExecuteTurn

Spec == Init /\ [][Next]_vars

RosterSpec == RosterInit /\ [][Next]_vars

\* The store alone: its writes and its reads
StoreNext ==
    \/ SetupDatabase
    \/ Reset
    \/ SendMessage
    \/ ReceiveMessage
    \/ GetAllMessages

StoreSpec == Init /\ [][StoreNext]_vars

\* A direct send within a session of at most MaxSession writing calls
SessionSend == nSends + nTurns < MaxSession /\ SendMessage

\* A turn within a session of at most MaxSession writing calls
SessionTurn == nSends + nTurns < MaxSession /\ ExecuteTurn

\* Every call of the protocol, reads and writes interleaved
SessionNext ==
    \/ SetupDatabase
    \/ Reset
    \/ SessionSend
    \/ ReceiveMessage
    \/ GetAllMessages
    \/ SessionTurn

SessionSpec == Init /\ [][SessionNext]_vars

TypeOK ==
    /\ tables = {"messages", "model_interactions"}
    /\ models \in Rosters
    /\ Len(messages) = sqlite_sequence.messages

----------------------------------------------------------------------------
\* Properties of execute_turn

N == Len(models)

TurnReturned == last.op = "execute_turn" /\ ~last.raised

\* The message and the hand-off written at position i of the last turn
TurnMessage(i) == messages[last.base + i]

TurnHandOff(i) == model_interactions[last.base + i]

\* C1: a turn that returns on a roster of length N returns exactly N
\* responses, and the i-th is the one produced for roster[i]: it is the
\* content roster[i] sent, and outside a seeded position 0 it names roster[i].
C1_OneResponsePerPosition ==
    TurnReturned =>
        /\ Len(last.responses) = N
        /\ \A i \in 1..N :
              /\ TurnMessage(i).model_id = models[i]
              /\ TurnMessage(i).message_content = last.responses[i]
              /\ IF i = 1 /\ TruthyStr(last.initial_message)
                 THEN last.responses[i] = Initial(last.initial_message.val)
                 ELSE /\ last.responses[i][1] = "RESPONSE from "
                      /\ last.responses[i][2] = models[i]

\* C1 witness: a turn on the three-entry roster returned on a store that
\* already held messages
C1_Witness ==
    /\ TurnReturned
    /\ N = 3
    /\ last.base > 0
    /\ Len(last.responses) = 3

\* C2: within one turn, the content received at every position i >= 1 is the
\* response stored at position i-1 of the same turn
C2_IncomingIsPreviousStep ==
    last.op = "execute_turn" =>
        \A i \in 2..Len(last.received) :
            last.received[i] = Some(last.responses[i - 1])

\* C3: a turn that returns appends exactly N messages and N hand-offs after
\* the rows already stored, the i-th being roster[i] -> roster[(i+1) mod N]
\* with content response[i]
C3_TurnAppendsRing ==
    [][ (nTurns' = nTurns + 1 /\ ~last'.raised) =>
          /\ Len(messages') = Len(messages) + N
          /\ Len(model_interactions') = Len(model_interactions) + N
          /\ SubSeq(messages', 1, Len(messages)) = messages
          /\ SubSeq(model_interactions', 1, Len(model_interactions)) = model_interactions
          /\ \A i \in 1..N :
               LET m == messages'[Len(messages) + i]
                   h == model_interactions'[Len(model_interactions) + i]
               IN  /\ m.model_id = models[i]
                   /\ m.message_content = last'.responses[i]
                   /\ h.model1_id = models[i]
                   /\ h.model2_id = models[(i % N) + 1]
                   /\ h.message_id = m.id
      ]_vars

\* C3 witness: a seeded turn on the empty store with the three-entry roster
\* has left exactly the hand-offs Claude->Gemini, Gemini->ChatGPT,
\* ChatGPT->Claude
C3_Witness ==
    /\ TurnReturned
    /\ last.base = 0
    /\ TruthyStr(last.initial_message)
    /\ models = DefaultModels
    /\ [i \in 1..Len(model_interactions) |->
            <<model_interactions[i].model1_id, model_interactions[i].model2_id>>]
         = << <<"Claude", "Gemini">>, <<"Gemini", "ChatGPT">>, <<"ChatGPT", "Claude">> >>

\* C4: every turn starts at roster position 0, and an unseeded turn that
\* follows a turn that returned builds response[0] from the message the last
\* roster entry sent to roster[0] in that turn
C4_TurnRestartsAtFirst ==
    [][ (nTurns' = nTurns + 1 /\ N > 0) =>
          /\ current_model_index' = 0
          /\ Len(messages') > Len(messages) =>
                /\ messages'[Len(messages) + 1].model_id = models[1]
                /\ model_interactions'[Len(model_interactions) + 1].model1_id = models[1]
          /\ (TurnReturned /\ last'.initial_message = None) =>
                /\ last'.received[1] = Some(last.responses[N])
                /\ ~last'.raised =>
                      last'.responses[1] = Received(models[1], last.responses[N])
      ]_vars

\* C4 witness: the second of two turns was unseeded, returned, and its
\* position 0 received what the last roster entry had sent to roster[0]
C4_Witness ==
    /\ TurnReturned
    /\ nTurns = 2
    /\ last.initial_message = None
    /\ last.base >= N
    /\ messages[last.base].model_id = models[N]
    /\ model_interactions[last.base].model2_id = models[1]
    /\ last.received[1] = Some(messages[last.base].message_content)
    /\ last.responses[1] = Received(models[1], messages[last.base].message_content)

----------------------------------------------------------------------------
\* Properties of the store

LatestCall == last.op = "receive_message" /\ ~last.message_id.some

TargetedCall == last.op = "receive_message" /\ last.message_id.some

\* The message a hand-off references
MessageOf(h) == CHOOSE m \in SeqToSet(messages) : m.id = h.message_id

ContentOf(h) == MessageOf(h).message_content

CreatedAt(h) == MessageOf(h).timestamp

\* The hand-offs addressed to r
HandOffsTo(r) == { h \in SeqToSet(model_interactions) : h.model2_id = r }

\* C5: receive_message(r) without an id returns the content of the message of
\* greatest createdAt among the hand-offs addressed to r, the greatest id
\* among those of equal createdAt, and None exactly when there is none
C5_LatestBreaksTiesById ==
    LatestCall =>
        IF HandOffsTo(last.model_id) = {} THEN last.ret = None
        ELSE \E h \in HandOffsTo(last.model_id) :
                /\ \A g \in HandOffsTo(last.model_id) :
                      \/ CreatedAt(g) < CreatedAt(h)
                      \/ CreatedAt(g) = CreatedAt(h) /\ g.message_id <= h.message_id
                /\ last.ret = Some(ContentOf(h))

\* C6: when the last two messages sent to r have different createdAt, the
\* second strictly later, receive_message(r) returns the second
C6_LaterOfTwoIsReturned ==
    LatestCall =>
        \A a, b \in HandOffsTo(last.model_id) :
            ( /\ a.message_id < b.message_id
              /\ \A g \in HandOffsTo(last.model_id) :
                    g.message_id <= a.message_id \/ g = b
              /\ CreatedAt(a) < CreatedAt(b) )
            => last.ret = Some(ContentOf(b))

\* C6 witness: r was sent two different contents in different seconds, another
\* receiver was sent a message in between, and receive_message(r) returned
\* the later content
C6_Witness ==
    /\ LatestCall
    /\ \E a, b \in HandOffsTo(last.model_id) :
          /\ CreatedAt(a) < CreatedAt(b)
          /\ ContentOf(a) # ContentOf(b)
          /\ last.ret = Some(ContentOf(b))
          /\ \E g \in SeqToSet(model_interactions) :
                /\ g.model2_id # last.model_id
                /\ a.message_id < g.message_id
                /\ g.message_id < b.message_id

C8_RoundTrip ==
    /\ (last.op = "send_message" /\ ~last.raised) =>
           receive_message(DB, last.receiver, SomeId(last.ret_id)) = { Some(last.content) }
    /\ \A h \in SeqToSet(model_interactions) :
           /\ receive_message(DB, h.model2_id, SomeId(h.message_id)) = { Some(ContentOf(h)) }
           /\ \A r2 \in Agents \ {h.model2_id} :
                  receive_message(DB, r2, SomeId(h.message_id)) = { None }

\* C8 witness: after a later append, the id of an earlier message was looked
\* up for its receiver and returned its content
C8_Witness ==
    /\ TargetedCall
    /\ last.ret.some
    /\ last.message_id.val >= 1
    /\ last.message_id.val < Len(messages)
    /\ messages[last.message_id.val].message_content # messages[Len(messages)].message_content

\* C9: receive_message(r, id) returns a message only when a hand-off with
\* that id and receiver r exists, and then that hand-off's message; for every
\* other id, 0 included, it returns None
C9_TargetedNeverSubstitutes ==
    TargetedCall =>
        \/ last.ret = None
        \/ \E h \in HandOffsTo(last.model_id) :
              /\ h.interaction_id = last.message_id.val
              /\ last.ret = Some(ContentOf(h))

\* C10: every hand-off references exactly one stored message and every
\* message is referenced by exactly one hand-off
C10_OneToOne ==
    /\ \A k \in 1..Len(model_interactions) :
          Cardinality({ j \in 1..Len(messages) :
                          messages[j].id = model_interactions[k].message_id }) = 1
    /\ \A j \in 1..Len(messages) :
          Cardinality({ k \in 1..Len(model_interactions) :
                          model_interactions[k].message_id = messages[j].id }) = 1

\* C10 witness: an append has just failed on a store that was cleared before
\* and holds messages again
C10_Witness ==
    /\ last.raised
    /\ nResets > 0
    /\ Len(messages) > 0

----------------------------------------------------------------------------
\* Properties of failing calls

\* A direct call of send_message has just been made
SendStep == nSends' = nSends + 1

\* A call of execute_turn has just been made
TurnStep == nTurns' = nTurns + 1

\* C11: a send_message that raises, at the second INSERT or at the commit,
\* leaves the store as it was before the call: no row of either table is
\* added, and every lookup and the history answer as before
C11_FailedSendLeavesStore ==
    [][ (SendStep /\ last'.raised) =>
          /\ messages' = messages
          /\ model_interactions' = model_interactions
          /\ sqlite_sequence' = sqlite_sequence
          /\ tables' = tables
          /\ get_all_messages(DB') = get_all_messages(DB)
          /\ \A r \in Agents, id \in MessageIds :
                receive_message(DB', r, id) = receive_message(DB, r, id)
      ]_vars

\* C11 witness: a direct send has just raised on a store that holds messages
\* and was never cleared
C11_Witness ==
    /\ last.op = "send_message"
    /\ last.raised
    /\ nResets = 0
    /\ Len(messages) > 0

\* C12: a turn whose send raises at step k (0-based) ends there: the error
\* propagates, k responses had been produced, and exactly the k messages and
\* hand-offs of steps 0..k-1 are appended and stay stored
C12_FailedTurnKeepsEarlierSteps ==
    [][ (TurnStep /\ last'.raised) =>
          LET k == Len(last'.responses)
          IN  /\ k < N
              /\ Len(last'.received) = k + 1
              /\ Len(messages') = Len(messages) + k
              /\ Len(model_interactions') = Len(model_interactions) + k
              /\ SubSeq(messages', 1, Len(messages)) = messages
              /\ SubSeq(model_interactions', 1, Len(model_interactions))
                     = model_interactions
              /\ \A i \in 1..k :
                    LET m == messages'[Len(messages) + i]
                        h == model_interactions'[Len(model_interactions) + i]
                    IN  /\ m.model_id = models[i]
                        /\ m.message_content = last'.responses[i]
                        /\ h.message_id = m.id
                        /\ h.model1_id = models[i]
                        /\ h.model2_id = models[(i % N) + 1]
      ]_vars

\* C12 witness: a turn on the three-entry roster raised at its last step and
\* the two messages of the steps before it are stored
C12_Witness ==
    /\ last.op = "execute_turn"
    /\ last.raised
    /\ N = 3
    /\ Len(last.responses) = 2
    /\ Len(messages) = last.base + 2
    /\ messages[Len(messages)].message_content = last.responses[2]

----------------------------------------------------------------------------
\* Properties of the seed, the reset and the schema

\* A step of the last turn that the seed does not govern
NonSeeded(i) == i > 1 \/ ~last.initial_message.some

\* C13: whenever a seed string is passed to execute_turn, the empty string
\* included, no lookup decides position 0 and response[0] is "INITIAL: "
\* followed by the seed; no later position uses the seed
C13_SeedAlwaysOpens ==
    (last.op = "execute_turn" /\ last.initial_message.some) =>
        /\ Len(last.received) >= 1 => last.received[1] = None
        /\ Len(last.responses) >= 1 =>
               last.responses[1] = Initial(last.initial_message.val)
        /\ \A i \in 2..Len(last.responses) :
               last.responses[i][1] = "RESPONSE from "

\* C14: after a reset the history is empty and every lookup returns None;
\* a turn that follows numbers its messages from 1, and each of its steps
\* receives None unless an earlier step of the same turn handed off to its
\* sender, in which case it receives the response of such a step
C14_ResetStartsFresh ==
    [][ /\ last'.op = "reset" =>
              /\ DB' = setup_database(NoFile)
              /\ get_all_messages(DB') = { <<>> }
              /\ \A r \in Agents, id \in MessageIds :
                    receive_message(DB', r, id) = { None }
        /\ (last.op = "reset" /\ TurnStep) =>
              /\ Len(messages') = Len(last'.responses)
              /\ \A j \in 1..Len(messages') :
                    /\ messages'[j].id = j
                    /\ model_interactions'[j].interaction_id = j
              /\ \A i \in 1..Len(last'.received) :
                    LET earlier == { j \in 1..(i - 1) : Receiver(models, j) = models[i] }
                    IN  IF earlier = {} \/ Seeded(i, last'.initial_message)
                        THEN last'.received[i] = None
                        ELSE \E j \in earlier :
                               last'.received[i] = Some(last'.responses[j])
      ]_vars

\* C14 witness: a first turn stored messages, the store was reset, and a
\* second, unseeded turn has returned on the emptied store
C14_Witness ==
    /\ TurnReturned
    /\ N = 3
    /\ nSends = 0
    /\ nTurns = 2
    /\ nResets = 1
    /\ last.base = 0
    /\ ~last.initial_message.some
    /\ messages[1].timestamp >= 2
    /\ last.received[1] = None

\* C15: execute_turn on a roster of length zero returns the empty list,
\* looks nothing up and writes nothing, with or without a seed
C15_EmptyRosterIsNoOp ==
    [][ (TurnStep /\ N = 0) =>
          /\ ~last'.raised
          /\ last'.responses = <<>>
          /\ last'.received = <<>>
          /\ DB' = DB
      ]_vars

\* C15 witness: a seeded turn has returned on the empty roster over a store
\* that holds messages
C15_Witness ==
    /\ TurnReturned
    /\ N = 0
    /\ TruthyStr(last.initial_message)
    /\ last.responses = <<>>
    /\ Len(messages) > 0

\* C16: setup_database on a store that already has its tables changes no
\* row of either table and no id counter, whatever the store holds
C16_SetupIdempotent ==
    [][ last'.op = "setup_database" =>
          /\ ~last'.raised
          /\ DB' = DB
          /\ get_all_messages(DB') = get_all_messages(DB)
      ]_vars

\* C16 witness: setup_database has run again on a store that holds messages
C16_Witness ==
    /\ last.op = "setup_database"
    /\ last.base > 0
    /\ Len(messages) = last.base
    /\ Len(model_interactions) = last.base

\* C17: in a non-seeded step the placeholder is the response exactly when no
\* hand-off addressed to the sender exists; when one exists, whatever its
\* content, the response quotes the content received
C17_PlaceholderOnlyWithoutHandOff ==
    last.op = "execute_turn" =>
        \A i \in 1..Len(last.responses) :
            NonSeeded(i) =>
                /\ last.responses[i] = NoPrior(models[i]) <=> last.received[i] = None
                /\ last.received[i].some =>
                       last.responses[i] = Received(models[i], last.received[i].val)

----------------------------------------------------------------------------
\* Properties of the log

\* old is an initial part of new
IsPrefix(old, new) ==
    /\ Len(old) <= Len(new)
    /\ SubSeq(new, 1, Len(old)) = old

\* C18: between resets no call modifies or removes a stored message or
\* hand-off, whatever call is made (send_message, receive_message,
\* execute_turn, get_all_messages, setup_database), and every message added
\* has an id greater than every id stored before it
C18_AppendOnly ==
    [][ nResets' = nResets =>
          /\ IsPrefix(messages, messages')
          /\ IsPrefix(model_interactions, model_interactions')
          /\ \A j \in (Len(messages) + 1)..Len(messages') :
                \A i \in 1..(j - 1) : messages'[i].id < messages'[j].id
      ]_vars

\* C18 witness: after a direct send and a turn, with no reset, a lookup has
\* returned a message and all four messages are stored
C18_Witness ==
    /\ last.op = "receive_message"
    /\ last.ret.some
    /\ nResets = 0
    /\ nSends = 1
    /\ nTurns = 1
    /\ Len(messages) = 4
    /\ Len(model_interactions) = 4

\* No roster entry is followed, cyclically, by an equal entry
NoSelfSuccessor ==
    \A i \in 1..N : models[i] # models[(i % N) + 1]

\* The latest-message lookup of no agent can return a message that agent sent
OwnMessageNeverReceived ==
    \A X \in Agents :
        \A r \in LatestRows(AddressedRows(DB, X)) : r.m.model_id # X

\* C19 as stated: on every roster of length at least 2, duplicates allowed,
\* receive_message(X) never returns a message whose sender is X
C19_NeverReceivesOwnMessage ==
    N >= 2 => OwnMessageNeverReceived

\* C19: on every roster of length at least 2 in which no entry is followed,
\* cyclically, by an equal entry (every roster without duplicates is one),
\* receive_message(X) never returns a message whose sender is X
C19_NoOwnMessageWithoutSelfSuccessor ==
    (N >= 2 /\ NoSelfSuccessor) => OwnMessageNeverReceived

\* C19 witness: two turns have run on a roster that names Claude twice, and
\* the lookup for Claude finds a message
C19_Witness ==
    /\ TurnReturned
    /\ N = 4
    /\ models[1] = models[3]
    /\ nTurns = 2
    /\ Len(messages) >= 5
    /\ LatestRows(AddressedRows(DB, models[1])) # {}

\* The rows a lookup by hand-off id would select
RowsByHandOffId(db, model_id, id) ==
    { r \in JoinRows(db) : r.mi.interaction_id = id /\ r.mi.model2_id = model_id }

\* C20: in every reachable store state each hand-off's own id equals the id
\* of the message it references, so receive_message(r, id) selects by message
\* id the rows a lookup by hand-off id would select
C20_HandOffIdIsMessageId ==
    /\ \A k \in 1..Len(model_interactions) :
          model_interactions[k].interaction_id = model_interactions[k].message_id
    /\ \A r \in Agents, id \in 0..(sqlite_sequence.messages + 1) :
          SpecificRows(DB, r, id) = RowsByHandOffId(DB, r, id)

\* C20 witness: of three direct sends one raised and the last one stored the
\* second message
C20_Witness ==
    /\ last.op = "send_message"
    /\ ~last.raised
    /\ nSends = 3
    /\ nTurns = 0
    /\ nResets = 0
    /\ Len(messages) = 2
    /\ last.ret_id = 2

====
